---- MODULE Spec2Model ----
(***************************************************************************)
(* Model of mdlv3.py: the MyDramaListScraper session manager (lazy browser *)
(* start, one browsing context per fetch, close), the two extraction       *)
(* functions, and the two chat handlers drama_command and drama_callback.  *)
(*                                                                         *)
(* Handlers are asyncio coroutines: a handler runs without interruption    *)
(* from one await to the next, and another handler may run only while it   *)
(* is suspended in an await.  Every await of the source is one pc value;   *)
(* the action of that pc is the completion of the awaited call (with its   *)
(* outcome, success or exception) followed by the code up to the next      *)
(* await.  A few pc values ("fetch_begin", "after_fetch", "close_begin",   *)
(* "after_close") are entry and return points of the shared routines; they *)
(* are not await points: while a handler stands at one of them no other   *)
(* handler takes a step (Runnable).                                        *)
(***************************************************************************)
EXTENDS Integers, Sequences, FiniteSets, TLC

VARIABLES
    task,          \* per handler invocation: position and local variables
    playwright,    \* scraper.playwright: driver handle, or NoHandle
    browser,       \* scraper.browser: browser handle, or NoHandle
    liveDrivers,   \* automation drivers started and not stopped
    liveBrowsers,  \* browser processes launched and not closed: <<browser, driver>>
    user_data,     \* user_data: user id -> stored search, None when absent
    probe          \* an extraction applied to a page on its own: input and outputs

vars == <<task, playwright, browser, liveDrivers, liveBrowsers, user_data, probe>>

-----------------------------------------------------------------------------
(* Bounds and small input sets *)

MaxTail == 2                       \* characters following "/drama" in a message
MaxProcs == 2                      \* driver (and browser) processes the host can run
MaxBoxes == 11                     \* result containers of a generated search page
MaxOver == 2                       \* characters of a synopsis beyond the limit

Tasks == {"t1", "t2"}              \* handler invocations that may be in flight
UserIds == {"alice", "bob"}        \* message.from_user.id values
Chars == {" ", "a"}                \* a whitespace and a non-whitespace character
NoHandle == 0

None == <<>>                       \* Python None / absent, as an empty option
Some(x) == <<x>>
Val(o) == o[1]

-----------------------------------------------------------------------------
(* Program constants *)

BASE_URL == "https://mydramalist.com"
ResultLimit == 10
SynopsisLimit == 500

-----------------------------------------------------------------------------
(* Text helpers: str.split(maxsplit=1) and str.strip() on character sequences *)

RECURSIVE LStrip(_)
LStrip(s) == IF s = <<>> THEN <<>>
             ELSE IF Head(s) = " " THEN LStrip(Tail(s)) ELSE s

RECURSIVE RStrip(_)
RStrip(s) == IF s = <<>> THEN <<>>
             ELSE IF s[Len(s)] = " " THEN RStrip(SubSeq(s, 1, Len(s) - 1)) ELSE s

Strip(s) == RStrip(LStrip(s))

RECURSIVE TakeWord(_)
TakeWord(s) == IF s = <<>> \/ Head(s) = " " THEN <<>>
               ELSE <<Head(s)>> \o TakeWord(Tail(s))

RECURSIVE DropWord(_)
DropWord(s) == IF s = <<>> \/ Head(s) = " " THEN s ELSE DropWord(Tail(s))

\* A plausible slip: the remainder keeps its leading whitespace, so a
\* whitespace-only remainder counts as a second part.
SplitMax1_KeepsBlankRest(s) ==
    LET a == LStrip(s) IN
    IF a = <<>> THEN <<>>
    ELSE IF DropWord(a) = <<>> THEN <<TakeWord(a)>>
    ELSE <<TakeWord(a), DropWord(a)>>

\* message.text.split(maxsplit=1)
SplitMax1(s) ==
    LET a == LStrip(s) IN
    IF a = <<>> THEN <<>>
    ELSE LET rest == LStrip(DropWord(a)) IN
         IF rest = <<>> THEN <<TakeWord(a)>> ELSE <<TakeWord(a), rest>>

RECURSIVE SeqsUpTo(_, _)
SeqsUpTo(S, n) == IF n = 0 THEN {<<>>}
                  ELSE LET shorter == SeqsUpTo(S, n - 1) IN
                       shorter \cup {Append(s, c) : s \in shorter, c \in S}

\* filters.command("drama"): the text is "/drama", then nothing or whitespace
\* and anything.
Texts == {<<"/drama">> \o s : s \in {x \in SeqsUpTo(Chars, MaxTail) : x = <<>> \/ x[1] = " "}}

-----------------------------------------------------------------------------
(* Extractor *)

\* str.replace(tok, ''): every occurrence of the token removed
RECURSIVE Remove(_, _)
Remove(s, tok) == IF s = <<>> THEN <<>>
                  ELSE IF Head(s) = tok THEN Remove(Tail(s), tok)
                  ELSE <<Head(s)>> \o Remove(Tail(s), tok)

\* Result containers (div.box with an id starting with "mdl-") of a page
Box1 == [boxid |-> <<"mdl-", "1">>, h6 |-> TRUE, a |-> TRUE,
         text |-> "Squid Game", href |-> <<"/1-squid-game">>, muted |-> "Korean Drama - 2021"]
Box2 == [boxid |-> <<"mdl-", "2">>, h6 |-> TRUE, a |-> TRUE,
         text |-> "Kingdom", href |-> <<"/2-kingdom">>, muted |-> ""]
BoxNoTitle == [boxid |-> <<"mdl-", "3">>, h6 |-> FALSE, a |-> FALSE,
               text |-> "", href |-> <<>>, muted |-> ""]

Digits == <<"0", "1", "2", "3", "4", "5", "6", "7", "8", "9">>

\* The id text of the i-th container of a generated page: two digits
IdText(i) == <<Digits[((i \div 10) % 10) + 1], Digits[(i % 10) + 1]>>

\* The i-th container of a generated page: with its title link, or without
\* (no h6 at odd positions, an h6 without anchor at even ones)
MkBox(i, titled) ==
    [boxid |-> <<"mdl-">> \o IdText(i), h6 |-> titled \/ i % 2 = 0, a |-> titled,
     text |-> IF titled THEN "Title" ELSE "", href |-> <<"/">> \o IdText(i),
     muted |-> ""]

\* A page of more containers than the limit, every one with its title
LongPage == [i \in 1..(ResultLimit + 1) |-> MkBox(i, TRUE)]

\* Search pages the site may serve
SearchPages == {<<>>, <<Box2, Box1>>, <<BoxNoTitle, Box1>>, LongPage}

Min(a, b) == IF a < b THEN a ELSE b

RECURSIVE ParseBoxes(_)
ParseBoxes(boxes) ==
    IF boxes = <<>> THEN <<>>
    ELSE LET box == Head(boxes) IN
         IF ~box.h6 \/ ~box.a THEN ParseBoxes(Tail(boxes))
         ELSE <<[id |-> Remove(box.boxid, "mdl-"),
                 title |-> box.text,
                 url |-> <<BASE_URL>> \o box.href,
                 type_year |-> box.muted]>> \o ParseBoxes(Tail(boxes))

\* A plausible slip: the slice is left out, every container is parsed.
ParseSearch_NoLimit(page) == ParseBoxes(page)

\* search_dramas, lines 77-107: the first ten containers, the untitled skipped
ParseSearch(page) == ParseBoxes(SubSeq(page, 1, Min(Len(page), ResultLimit)))

\* Text of n characters
TextOf(n) == [i \in 1..n |-> IF i % 2 = 1 THEN "a" ELSE "b"]

NA == <<"N/A">>
Ellipsis == <<".", ".", ".">>
PosterSrc == <<"https:", "//", "img/poster.jpg">>

\* A detail page: the elements get_drama_details looks for.  h1: the title
\* heading; img: the poster image with its src; rating: the rating container
\* complete ("ok"), without its inner value box ("nobox"), or absent; info:
\* the labels of the info list; synopsis and genres: absent or their content.
Doc(img, rating) ==
    [h1 |-> TRUE, img |-> img, rating |-> rating, info |-> {"Country", "Type"},
     synopsis |-> Some(TextOf(3)), genres |-> Some(<<"Thriller">>)]

\* Detail pages the site may serve: poster present or not; the rating
\* container complete, or present without its inner value box.
DetailPages == {Doc(Some(PosterSrc), "ok"), Doc(None, "ok"), Doc(Some(PosterSrc), "nobox")}

\* lines 128-131: the src of the poster, made absolute
ImageUrl(img) ==
    IF img = None \/ Val(img) = <<>> THEN <<>>
    ELSE LET src == Val(img) IN
         IF Head(src) \in {"http:", "https:"} THEN src
         ELSE IF Head(src) = "//" THEN <<"https:">> \o src
         ELSE <<BASE_URL>> \o src

\* lines 170-174: info.get(key, info.get(alt, 'N/A'))
InfoGet(info, key, alt) ==
    IF key \in info THEN <<"value of", key>>
    ELSE IF alt \in info THEN <<"value of", alt>>
    ELSE NA

\* line 175: ', '.join(genres)
RECURSIVE Join(_)
Join(names) == IF Len(names) = 0 THEN <<>>
               ELSE IF Len(names) = 1 THEN names
               ELSE <<Head(names), ", ">> \o Join(Tail(names))

\* A plausible slip: a synopsis of exactly the limit is cut and marked too.
Truncate_AtLimit(synopsis) ==
    IF Len(synopsis) >= SynopsisLimit
    THEN SubSeq(synopsis, 1, SynopsisLimit) \o Ellipsis
    ELSE synopsis

\* line 176: synopsis[:500] + '...' if len(synopsis) > 500 else synopsis
Truncate(synopsis) ==
    IF Len(synopsis) > SynopsisLimit
    THEN SubSeq(synopsis, 1, SynopsisLimit) \o Ellipsis
    ELSE synopsis

\* get_drama_details, lines 121-181: the record; None when the extraction
\* raises, which line 135 does for a rating container without its value box
ParseDetail(page, drama_url) ==
    IF page.rating = "nobox" THEN None
    ELSE LET synopsis == IF page.synopsis = None THEN <<>> ELSE Val(page.synopsis)
             genres == IF page.genres = None THEN <<>> ELSE Val(page.genres)
         IN Some([title |-> IF page.h1 THEN <<"Title">> ELSE <<"Unknown">>,
                  image_url |-> ImageUrl(page.img),
                  rating |-> IF page.rating = "ok" THEN <<"8.5">> ELSE NA,
                  country |-> InfoGet(page.info, "Country", "Pays"),
                  type |-> InfoGet(page.info, "Type", "Categorie"),
                  episodes |-> InfoGet(page.info, "Episodes", "Episodes-fr"),
                  aired |-> InfoGet(page.info, "Aired", "Diffuse"),
                  duration |-> InfoGet(page.info, "Duration", "Duree"),
                  genres |-> IF genres # <<>> THEN Join(genres) ELSE NA,
                  synopsis |-> Truncate(synopsis),
                  url |-> drama_url])

-----------------------------------------------------------------------------
(* Interaction Controller: pure helpers *)

\* Button selectors a client may send: "mdl_" followed by an id
CallbackData == {<<"mdl_">> \o id : id \in {<<"1">>, <<"2">>}}

\* lines 306-310: callback_data = f"mdl_{drama['id']}"
Selector(drama_id) == <<"mdl_">> \o drama_id

\* line 337: drama_id = data.replace('mdl_', '')
DecodeSelector(data) == Remove(data, "mdl_")

Ids(results) == {results[i].id : i \in 1..Len(results)}

\* A plausible slip: the comparison with the selected id is dropped, so the
\* first stored entry is taken.
Lookup_FirstEntry(results, drama_id) ==
    IF results = <<>> THEN None ELSE Some(results[1].url)

\* drama_callback, lines 345-349: the url of the first entry with that id
Lookup(results, drama_id) ==
    IF drama_id \in Ids(results)
    THEN LET i == CHOOSE k \in 1..Len(results) :
                      /\ results[k].id = drama_id
                      /\ \A j \in 1..(k - 1) : results[j].id # drama_id
         IN Some(results[i].url)
    ELSE None

-----------------------------------------------------------------------------
(* State *)

\* Positions that are not awaits: the running handler keeps the event loop.
SyncPcs == {"fetch_begin", "after_fetch", "close_begin", "after_close"}

NewTask == [pc |-> "idle", kind |-> "none", uid |-> "nobody",
            text |-> <<>>, data |-> <<>>, query |-> <<>>,
            url |-> None, content |-> None, tmp |-> None,
            results |-> <<>>, details |-> None, site |-> "none",
            ub |-> NoHandle, ud |-> NoHandle, cb |-> NoHandle, cp |-> NoHandle,
            ctxOpen |-> FALSE, pageOpen |-> FALSE, msgDeleted |-> FALSE,
            ev |-> <<>>, tried |-> {}, shown |-> {},
            escaped |-> FALSE]

\* No extraction is looked at on its own.
NoProbe == [kind |-> "none", stage |-> "none", page |-> <<>>, doc |-> None,
            results |-> <<>>, details |-> None, sel |-> 0, data |-> <<>>, hit |-> None]

\* lines 205-206: scraper = MyDramaListScraper(); user_data = {}
Init ==
    /\ task = [t \in Tasks |-> NewTask]
    /\ playwright = NoHandle
    /\ browser = NoHandle
    /\ liveDrivers = {}
    /\ liveBrowsers = {}
    /\ user_data = [u \in UserIds |-> None]
    /\ probe = NoProbe

scraperVars == <<playwright, browser, liveDrivers, liveBrowsers>>

\* A handler may take a step when no other handler is between two awaits.
Runnable(t) == \A s \in Tasks \ {t} : task[s].pc \notin SyncPcs

AllOthersIdle(t) == \A s \in Tasks \ {t} : task[s].pc = "idle"

Only(t, r) ==
    /\ task' = [task EXCEPT ![t] = r]
    /\ UNCHANGED <<scraperVars, user_data, probe>>

\* An outbound message call completed: attempted, and delivered when ok.
Msg(r, m, ok) == [r EXCEPT !.tried = @ \cup {m},
                           !.shown = IF ok THEN @ \cup {m} ELSE @]

\* The handler is over: its local variables are dropped; what it did (ev,
\* tried, shown, escaped) stays readable until Finish.
Ended(r) == [r EXCEPT !.pc = "done", !.tmp = None,
                      !.results = <<>>, !.details = None, !.site = "none",
                      !.ub = IF r.ctxOpen \/ r.pageOpen THEN @ ELSE NoHandle,
                      !.ud = NoHandle, !.cb = NoHandle, !.cp = NoHandle]

\* The handler returns.
Return(r) == Ended(r)

\* An exception leaves the handler.
Escape(r) == [Ended(r) EXCEPT !.escaped = TRUE]

\* A call of scraper.close() from the named place.
CallClose(r, where) == [r EXCEPT !.pc = "close_begin", !.site = where]

LiveBrowserIds == {p[1] : p \in liveBrowsers}

UsedDrivers == liveDrivers \cup {playwright}
                 \cup {task[s].ud : s \in Tasks} \cup {task[s].cp : s \in Tasks}

UsedBrowsers == LiveBrowserIds \cup {browser}
                  \cup {task[s].ub : s \in Tasks} \cup {task[s].cb : s \in Tasks}

\* A handle no variable holds.
Fresh(used) == CHOOSE i \in 1..(Cardinality(used) + 1) :
                   /\ i \notin used
                   /\ \A j \in 1..(i - 1) : j \in used

\* The contexts and pages of browsers that ended are gone with them.
Gone(tk, dead) ==
    [s \in Tasks |-> IF tk[s].ub \in dead
                     THEN [tk[s] EXCEPT !.ctxOpen = FALSE, !.pageOpen = FALSE]
                     ELSE tk[s]]

-----------------------------------------------------------------------------
(* Session Manager: _get_page_content with _ensure_browser *)

\* _get_page_content raises, or returns None: the caller gets no HTML.
NoHtml(r) == [r EXCEPT !.pc = "after_fetch", !.content = None, !.tmp = None,
                      !.ud = NoHandle,
                      !.ub = IF r.ctxOpen \/ r.pageOpen THEN @ ELSE NoHandle]

\* lines 47 and 34: the call of _get_page_content up to its first await
FetchBegin(t) ==
    /\ Runnable(t)
    /\ task[t].pc = "fetch_begin"
    /\ LET r == [task[t] EXCEPT !.ev = Append(@, "fetch")] IN
       IF browser = NoHandle
       THEN Only(t, [r EXCEPT !.pc = "pw_start"])
       ELSE Only(t, [r EXCEPT !.pc = "newctx", !.ub = browser])

\* line 35: self.playwright = await async_playwright().start()
PwStart(t) ==
    /\ Runnable(t)
    /\ task[t].pc = "pw_start"
    /\ \/ LET d == Fresh(UsedDrivers) IN
          /\ Cardinality(liveDrivers) < MaxProcs
          /\ liveDrivers' = liveDrivers \cup {d}
          /\ playwright' = d
          /\ task' = [task EXCEPT ![t] = [@ EXCEPT !.pc = "launch", !.ud = d]]
          /\ UNCHANGED <<browser, liveBrowsers, user_data, probe>>
       \/ Only(t, NoHtml(task[t]))

\* lines 39-42: self.browser = await self.playwright.firefox.launch(...)
Launch(t) ==
    /\ Runnable(t)
    /\ task[t].pc = "launch"
    /\ \/ /\ task[t].ud \in liveDrivers
          /\ Cardinality(liveBrowsers) < MaxProcs
          /\ LET b == Fresh(UsedBrowsers) IN
             /\ liveBrowsers' = liveBrowsers \cup {<<b, task[t].ud>>}
             /\ browser' = b
             /\ task' = [task EXCEPT ![t] = [@ EXCEPT !.pc = "newctx", !.ub = b,
                                                      !.ud = NoHandle]]
          /\ UNCHANGED <<playwright, liveDrivers, user_data, probe>>
       \/ Only(t, NoHtml(task[t]))

\* lines 50-52: context = await self.browser.new_context(...), outside the try
NewContext(t) ==
    /\ Runnable(t)
    /\ task[t].pc = "newctx"
    /\ \/ /\ task[t].ub \in LiveBrowserIds
          /\ Only(t, [task[t] EXCEPT !.pc = "newpage", !.ctxOpen = TRUE])
       \/ Only(t, NoHtml(task[t]))

\* line 53: page = await context.new_page(), outside the try
NewPage(t) ==
    /\ Runnable(t)
    /\ task[t].pc = "newpage"
    /\ \/ /\ task[t].ub \in LiveBrowserIds
          /\ Only(t, [task[t] EXCEPT !.pc = "goto", !.pageOpen = TRUE])
       \/ Only(t, NoHtml(task[t]))

\* line 56: await page.goto(url, ...); on an exception lines 60-62, then finally
Goto(t) ==
    /\ Runnable(t)
    /\ task[t].pc = "goto"
    /\ \/ /\ task[t].ub \in LiveBrowserIds
          /\ Only(t, [task[t] EXCEPT !.pc = "waitidle"])
       \/ Only(t, [task[t] EXCEPT !.pc = "pageclose", !.tmp = None])

\* line 57: await page.wait_for_load_state("networkidle")
WaitIdle(t) ==
    /\ Runnable(t)
    /\ task[t].pc = "waitidle"
    /\ \/ /\ task[t].ub \in LiveBrowserIds
          /\ Only(t, [task[t] EXCEPT !.pc = "getcontent"])
       \/ Only(t, [task[t] EXCEPT !.pc = "pageclose", !.tmp = None])

\* lines 58-59: content = await page.content(); return content
GetContent(t) ==
    /\ Runnable(t)
    /\ task[t].pc = "getcontent"
    /\ \/ /\ task[t].ub \in LiveBrowserIds
          /\ \E page \in IF task[t].kind = "cmd" THEN SearchPages ELSE DetailPages :
                Only(t, [task[t] EXCEPT !.pc = "pageclose", !.tmp = Some(page)])
       \/ Only(t, [task[t] EXCEPT !.pc = "pageclose", !.tmp = None])

\* line 64, in finally: await page.close(); when it raises, line 65 is not run
PageClose(t) ==
    /\ Runnable(t)
    /\ task[t].pc = "pageclose"
    /\ \/ Only(t, [task[t] EXCEPT !.pc = "ctxclose", !.pageOpen = FALSE])
       \/ Only(t, NoHtml(task[t]))

\* line 65, in finally: await context.close(); then the try's return value
CtxClose(t) ==
    /\ Runnable(t)
    /\ task[t].pc = "ctxclose"
    /\ \/ Only(t, [task[t] EXCEPT !.pc = "after_fetch", !.ctxOpen = FALSE,
                                  !.pageOpen = FALSE, !.content = task[t].tmp,
                                  !.tmp = None, !.ub = NoHandle])
       \/ Only(t, NoHtml(task[t]))

-----------------------------------------------------------------------------
(* Session Manager: close *)

\* A plausible slip: the except block forgets the driver handle.
ResetHandles_BrowserOnly == browser' = NoHandle /\ UNCHANGED playwright

\* lines 198-199, the except block of close
ResetHandles == browser' = NoHandle /\ playwright' = NoHandle

\* A plausible slip: close() without its two "if" tests and without the
\* except block raises when there is nothing to close.
CloseBegin_RaisesWhenClosed(t) ==
    /\ Runnable(t)
    /\ task[t].pc = "close_begin"
    /\ LET r == [task[t] EXCEPT !.ev = Append(@, "close")] IN
       IF browser # NoHandle
       THEN Only(t, [r EXCEPT !.pc = "bclose", !.cb = browser])
       ELSE IF playwright # NoHandle
       THEN Only(t, [r EXCEPT !.pc = "pstop", !.cp = playwright])
       ELSE Only(t, Escape(r))

\* lines 185-187 and 191: the call of close() up to its first await
CloseBegin(t) ==
    /\ Runnable(t)
    /\ task[t].pc = "close_begin"
    /\ LET r == [task[t] EXCEPT !.ev = Append(@, "close")] IN
       IF browser # NoHandle
       THEN Only(t, [r EXCEPT !.pc = "bclose", !.cb = browser])
       ELSE IF playwright # NoHandle
       THEN Only(t, [r EXCEPT !.pc = "pstop", !.cp = playwright])
       ELSE Only(t, [r EXCEPT !.pc = "after_close"])

\* lines 188-189: await self.browser.close(); self.browser = None; then line 191
BClose(t) ==
    /\ Runnable(t)
    /\ task[t].pc = "bclose"
    /\ \/ /\ liveBrowsers' = {p \in liveBrowsers : p[1] # task[t].cb}
          /\ browser' = NoHandle
          /\ task' = [Gone(task, {task[t].cb}) EXCEPT ![t] =
                         IF playwright # NoHandle
                         THEN [@ EXCEPT !.pc = "pstop", !.cb = NoHandle, !.cp = playwright]
                         ELSE [@ EXCEPT !.pc = "after_close", !.cb = NoHandle]]
          /\ UNCHANGED <<playwright, liveDrivers, user_data, probe>>
       \/ \E died \in BOOLEAN :
          /\ ResetHandles
          /\ liveBrowsers' = IF died THEN {p \in liveBrowsers : p[1] # task[t].cb}
                             ELSE liveBrowsers
          /\ task' = [Gone(task, IF died THEN {task[t].cb} ELSE {}) EXCEPT ![t] =
                         [@ EXCEPT !.pc = "after_close", !.cb = NoHandle,
                                   !.cp = NoHandle]]
          /\ UNCHANGED <<liveDrivers, user_data, probe>>

\* lines 192-193: await self.playwright.stop(); self.playwright = None
PStop(t) ==
    /\ Runnable(t)
    /\ task[t].pc = "pstop"
    /\ LET dead == {p[1] : p \in {q \in liveBrowsers : q[2] = task[t].cp}} IN
       \/ /\ liveDrivers' = liveDrivers \ {task[t].cp}
          /\ liveBrowsers' = {p \in liveBrowsers : p[2] # task[t].cp}
          /\ playwright' = NoHandle
          /\ task' = [Gone(task, dead) EXCEPT ![t] = [@ EXCEPT !.pc = "after_close", !.cb = NoHandle,
                                   !.cp = NoHandle]]
          /\ UNCHANGED <<browser, user_data, probe>>
       \/ \E died \in BOOLEAN :
          /\ ResetHandles
          /\ liveDrivers' = IF died THEN liveDrivers \ {task[t].cp} ELSE liveDrivers
          /\ liveBrowsers' = IF died THEN {p \in liveBrowsers : p[2] # task[t].cp}
                             ELSE liveBrowsers
          /\ task' = [Gone(task, IF died THEN dead ELSE {}) EXCEPT ![t] =
                         [@ EXCEPT !.pc = "after_close", !.cb = NoHandle,
                                   !.cp = NoHandle]]
          /\ UNCHANGED <<user_data, probe>>

-----------------------------------------------------------------------------
(* Interaction Controller: drama_command *)

\* lines 256-274: the command arrives; usage reply or progress reply is sent
CmdStart(t, u) ==
    /\ Runnable(t)
    /\ task[t].pc = "idle"
    /\ \E txt \in Texts :
          LET command_parts == SplitMax1(txt)
              r == [NewTask EXCEPT !.kind = "cmd", !.uid = u, !.text = txt]
          IN IF Len(command_parts) < 2
             THEN Only(t, [r EXCEPT !.pc = "c_usage"])
             ELSE Only(t, [r EXCEPT !.pc = "c_searching",
                                    !.query = Strip(command_parts[2])])

\* lines 259-265: await message.reply_text(usage); return
CmdUsageReply(t) ==
    /\ Runnable(t)
    /\ task[t].pc = "c_usage"
    /\ \/ Only(t, Return(Msg(task[t], "usage", TRUE)))
       \/ Only(t, Escape(Msg(task[t], "usage", FALSE)))

\* lines 271-278: searching_msg = await message.reply_text(...), outside the
\* try; then scraper.search_dramas(query).  message.text is read at line 256
\* only: from the search on the record keeps the query alone.
CmdSearchingReply(t) ==
    /\ Runnable(t)
    /\ task[t].pc = "c_searching"
    /\ \/ Only(t, [Msg(task[t], "searching", TRUE) EXCEPT !.pc = "fetch_begin",
                                                          !.text = <<>>])
       \/ Only(t, Escape(Msg(task[t], "searching", FALSE)))

\* A plausible slip: the handler goes on to store and show the results
\* without closing the browser first.
CmdAfterSearch_NoClose(t) ==
    /\ Runnable(t)
    /\ task[t].pc = "after_fetch"
    /\ task[t].kind = "cmd"
    /\ LET html == task[t].content
           r == IF html = None
                THEN [task[t] EXCEPT !.results = <<>>]
                ELSE [task[t] EXCEPT !.results = ParseSearch(Val(html)),
                                     !.ev = Append(@, "parse")]
       IN Only(t, [r EXCEPT !.pc = "after_close", !.site = "c_after_search"])

\* lines 73-110 and 278-281: search_dramas returns [] without HTML or on an
\* exception, the parsed results otherwise; then scraper.close() is called
CmdAfterSearch(t) ==
    /\ Runnable(t)
    /\ task[t].pc = "after_fetch"
    /\ task[t].kind = "cmd"
    /\ LET html == task[t].content
           r == IF html = None
                THEN [task[t] EXCEPT !.results = <<>>]
                ELSE [task[t] EXCEPT !.results = ParseSearch(Val(html)),
                                     !.ev = Append(@, "parse")]
       IN Only(t, CallClose(r, "c_after_search"))

\* A plausible slip: the session is one global record, not one per user.
CmdAfterClose_SharedSession(t) ==
    /\ Runnable(t)
    /\ task[t].pc = "after_close"
    /\ task[t].site = "c_after_search"
    /\ IF task[t].results = <<>>
       THEN Only(t, [task[t] EXCEPT !.pc = "c_edit_notfound"])
       ELSE /\ user_data' = [u \in UserIds |->
                                Some([results |-> task[t].results,
                                      query |-> task[t].query])]
            /\ task' = [task EXCEPT ![t] = [@ EXCEPT !.pc = "c_edit_results"]]
            /\ UNCHANGED <<scraperVars, probe>>

\* A plausible slip: the results are stored before the test for an empty
\* list, so a search without results replaces the stored set too.
CmdAfterClose_StoresEmpty(t) ==
    /\ Runnable(t)
    /\ task[t].pc = "after_close"
    /\ task[t].site = "c_after_search"
    /\ user_data' = [user_data EXCEPT ![task[t].uid] =
                        Some([results |-> task[t].results,
                              query |-> task[t].query])]
    /\ task' = [task EXCEPT ![t] = [@ EXCEPT !.pc = IF task[t].results = <<>>
                                                     THEN "c_edit_notfound"
                                                     ELSE "c_edit_results"]]
    /\ UNCHANGED <<scraperVars, probe>>

\* lines 284-318 after close() returned at line 281: no results, or the
\* results are stored for the user and the keyboard is sent
CmdAfterClose(t) ==
    /\ Runnable(t)
    /\ task[t].pc = "after_close"
    /\ task[t].site = "c_after_search"
    /\ IF task[t].results = <<>>
       THEN Only(t, [task[t] EXCEPT !.pc = "c_edit_notfound"])
       ELSE /\ user_data' = [user_data EXCEPT ![task[t].uid] =
                                Some([results |-> task[t].results,
                                      query |-> task[t].query])]
            /\ task' = [task EXCEPT ![t] = [@ EXCEPT !.pc = "c_edit_results"]]
            /\ UNCHANGED <<scraperVars, probe>>

\* lines 285-290: await searching_msg.edit_text(no results); return
CmdEditNotFound(t) ==
    /\ Runnable(t)
    /\ task[t].pc = "c_edit_notfound"
    /\ \/ Only(t, Return(Msg(task[t], "not_found", TRUE)))
       \/ Only(t, CallClose(Msg(task[t], "not_found", FALSE), "c_except"))

\* lines 313-319: await searching_msg.edit_text(results keyboard)
CmdEditResults(t) ==
    /\ Runnable(t)
    /\ task[t].pc = "c_edit_results"
    /\ \/ Only(t, Return([Msg(task[t], "results", TRUE) EXCEPT
                              !.ev = Append(@, "render")]))
       \/ Only(t, CallClose(Msg(task[t], "results", FALSE), "c_except"))

\* lines 321-324: except: close() returned, the generic message is next
CmdExceptAfterClose(t) ==
    /\ Runnable(t)
    /\ task[t].pc = "after_close"
    /\ task[t].site = "c_except"
    /\ Only(t, [task[t] EXCEPT !.pc = "c_edit_generic"])

\* lines 324-327: await searching_msg.edit_text(generic), inside the except
CmdEditGeneric(t) ==
    /\ Runnable(t)
    /\ task[t].pc = "c_edit_generic"
    /\ \/ Only(t, Return(Msg(task[t], "generic", TRUE)))
       \/ Only(t, Escape(Msg(task[t], "generic", FALSE)))

-----------------------------------------------------------------------------
(* Interaction Controller: drama_callback *)

\* line 334: the button click arrives; await callback_query.answer()
CbStart(t, u) ==
    /\ Runnable(t)
    /\ task[t].pc = "idle"
    /\ \E d \in CallbackData :
          Only(t, [NewTask EXCEPT !.kind = "cb", !.uid = u, !.data = d,
                                  !.pc = "b_answer"])

\* lines 334-356: the acknowledgement completed; the id is decoded and
\* looked up in the user's stored results; one of three messages is sent
CbAnswer(t) ==
    /\ Runnable(t)
    /\ task[t].pc = "b_answer"
    /\ \/ LET drama_id == DecodeSelector(task[t].data)
              stored == user_data[task[t].uid]
          IN IF stored = None
             THEN Only(t, [task[t] EXCEPT !.pc = "b_edit_searchagain"])
             ELSE LET drama_url == Lookup(Val(stored).results, drama_id) IN
                  IF drama_url = None
                  THEN Only(t, [task[t] EXCEPT !.pc = "b_edit_nodrama"])
                  ELSE Only(t, [task[t] EXCEPT !.pc = "b_edit_loading",
                                               !.url = drama_url])
       \/ Only(t, Escape(task[t]))

\* lines 342-343: await edit_text("not found, search again"); return
CbEditSearchAgain(t) ==
    /\ Runnable(t)
    /\ task[t].pc = "b_edit_searchagain"
    /\ \/ Only(t, Return(Msg(task[t], "search_again", TRUE)))
       \/ Only(t, Escape(Msg(task[t], "search_again", FALSE)))

\* lines 352-353: await edit_text("Drama not found."); return
CbEditNoDrama(t) ==
    /\ Runnable(t)
    /\ task[t].pc = "b_edit_nodrama"
    /\ \/ Only(t, Return(Msg(task[t], "no_drama", TRUE)))
       \/ Only(t, Escape(Msg(task[t], "no_drama", FALSE)))

\* lines 356-360: await edit_text("Loading"), outside the try; then
\* scraper.get_drama_details(drama_url)
CbEditLoading(t) ==
    /\ Runnable(t)
    /\ task[t].pc = "b_edit_loading"
    /\ \/ Only(t, [Msg(task[t], "loading", TRUE) EXCEPT !.pc = "fetch_begin"])
       \/ Only(t, Escape(Msg(task[t], "loading", FALSE)))

\* lines 117-181 and 360-400: get_drama_details returns None without HTML or
\* on an exception, the record otherwise; without details close() is called,
\* with details the message is deleted (poster) or edited (no poster)
CbAfterDetails(t) ==
    /\ Runnable(t)
    /\ task[t].pc = "after_fetch"
    /\ task[t].kind = "cb"
    /\ LET html == task[t].content
           r == IF html = None
                THEN [task[t] EXCEPT !.details = None]
                ELSE [task[t] EXCEPT !.details = ParseDetail(Val(html), Val(task[t].url)),
                                     !.ev = Append(@, "parse")]
       IN IF r.details = None
          THEN Only(t, CallClose(r, "b_nodetails"))
          ELSE IF Val(r.details).image_url # <<>>
          THEN Only(t, [r EXCEPT !.pc = "b_delete"])
          ELSE Only(t, [r EXCEPT !.pc = "b_edit_caption"])

\* lines 363-365: close() returned; the "could not fetch" message is next
CbNoDetailsAfterClose(t) ==
    /\ Runnable(t)
    /\ task[t].pc = "after_close"
    /\ task[t].site = "b_nodetails"
    /\ Only(t, [task[t] EXCEPT !.pc = "b_edit_unavail"])

\* lines 364-365: await edit_text("Could not fetch drama details."); return
CbEditUnavailable(t) ==
    /\ Runnable(t)
    /\ task[t].pc = "b_edit_unavail"
    /\ \/ Only(t, Return(Msg(task[t], "unavailable", TRUE)))
       \/ Only(t, CallClose(Msg(task[t], "unavailable", FALSE), "b_outer_except"))

\* line 387: await callback_query.message.delete()
CbDelete(t) ==
    /\ Runnable(t)
    /\ task[t].pc = "b_delete"
    /\ \/ Only(t, [task[t] EXCEPT !.pc = "b_send_photo", !.msgDeleted = TRUE])
       \/ Only(t, [task[t] EXCEPT !.pc = "b_edit_fallback"])

\* lines 390-397: await client.send_photo(...)
CbSendPhoto(t) ==
    /\ Runnable(t)
    /\ task[t].pc = "b_send_photo"
    /\ \/ Only(t, [Msg(task[t], "photo", TRUE) EXCEPT !.pc = "b_sleep_sent",
                                                     !.ev = Append(@, "render")])
       \/ Only(t, [Msg(task[t], "photo", FALSE) EXCEPT !.pc = "b_edit_fallback"])

\* lines 400-406: await edit_text(caption), the record has no image
CbEditCaption(t) ==
    /\ Runnable(t)
    /\ task[t].pc = "b_edit_caption"
    /\ \/ Only(t, [Msg(task[t], "text", TRUE) EXCEPT !.pc = "b_sleep_sent",
                                                    !.ev = Append(@, "render")])
       \/ Only(t, [Msg(task[t], "text", FALSE) EXCEPT !.pc = "b_edit_fallback"])

\* lines 409-410: await asyncio.sleep(1); then scraper.close()
CbSleepSent(t) ==
    /\ Runnable(t)
    /\ task[t].pc = "b_sleep_sent"
    /\ Only(t, CallClose(task[t], "b_after_send"))

\* lines 413-421: inner except: await edit_text(caption); a deleted message
\* cannot be edited; an exception here reaches the outer except
CbEditFallback(t) ==
    /\ Runnable(t)
    /\ task[t].pc = "b_edit_fallback"
    /\ \/ /\ ~task[t].msgDeleted
          /\ Only(t, [Msg(task[t], "text", TRUE) EXCEPT !.pc = "b_sleep_fallback",
                                                       !.ev = Append(@, "render")])
       \/ Only(t, CallClose(Msg(task[t], "text", FALSE), "b_outer_except"))

\* lines 422-423: await asyncio.sleep(1); then scraper.close()
CbSleepFallback(t) ==
    /\ Runnable(t)
    /\ task[t].pc = "b_sleep_fallback"
    /\ Only(t, CallClose(task[t], "b_inner_except"))

\* lines 410-411 and 423-424: close() returned; the handler ends
CbSentAfterClose(t) ==
    /\ Runnable(t)
    /\ task[t].pc = "after_close"
    /\ task[t].site \in {"b_after_send", "b_inner_except"}
    /\ Only(t, Return(task[t]))

\* lines 426-429: outer except: close() returned, the generic message is next
CbExceptAfterClose(t) ==
    /\ Runnable(t)
    /\ task[t].pc = "after_close"
    /\ task[t].site = "b_outer_except"
    /\ Only(t, [task[t] EXCEPT !.pc = "b_edit_generic"])

\* lines 429-432: await edit_text(generic), inside the outer except; a
\* deleted message cannot be edited
CbEditGeneric(t) ==
    /\ Runnable(t)
    /\ task[t].pc = "b_edit_generic"
    /\ \/ /\ ~task[t].msgDeleted
          /\ Only(t, Return(Msg(task[t], "generic", TRUE)))
       \/ Only(t, Escape(Msg(task[t], "generic", FALSE)))

\* The dispatcher is done with the handler; the invocation slot is free.
Finish(t) ==
    /\ Runnable(t)
    /\ task[t].pc = "done"
    /\ Only(t, NewTask)

-----------------------------------------------------------------------------
(* Specifications *)

\* A step of a handler that is under way
Step(t) ==
    \/ FetchBegin(t) \/ PwStart(t) \/ Launch(t) \/ NewContext(t) \/ NewPage(t)
    \/ Goto(t) \/ WaitIdle(t) \/ GetContent(t) \/ PageClose(t) \/ CtxClose(t)
    \/ CloseBegin(t) \/ BClose(t) \/ PStop(t)
    \/ CmdUsageReply(t) \/ CmdSearchingReply(t) \/ CmdAfterSearch(t)
    \/ CmdAfterClose(t) \/ CmdEditNotFound(t) \/ CmdEditResults(t)
    \/ CmdExceptAfterClose(t) \/ CmdEditGeneric(t)
    \/ CbAnswer(t) \/ CbEditSearchAgain(t) \/ CbEditNoDrama(t) \/ CbEditLoading(t)
    \/ CbAfterDetails(t) \/ CbNoDetailsAfterClose(t) \/ CbEditUnavailable(t)
    \/ CbDelete(t) \/ CbSendPhoto(t) \/ CbEditCaption(t) \/ CbSleepSent(t)
    \/ CbEditFallback(t) \/ CbSleepFallback(t) \/ CbSentAfterClose(t)
    \/ CbExceptAfterClose(t) \/ CbEditGeneric(t)

\* One interaction at a time (spec section 5): a handler starts when no
\* other is under way; interactions follow one another without end.
Next == \E t \in Tasks :
           \/ AllOthersIdle(t) /\ \E u \in UserIds : CmdStart(t, u) \/ CbStart(t, u)
           \/ Step(t)
           \/ Finish(t)

Spec == Init /\ [][Next]_vars

\* The bot at rest after earlier interactions: no browser; every user has
\* the result set of an earlier search of their own stored, or none has.
InitAtRest ==
    /\ task = [t \in Tasks |-> NewTask]
    /\ playwright = NoHandle
    /\ browser = NoHandle
    /\ liveDrivers = {}
    /\ liveBrowsers = {}
    /\ user_data \in {[u \in UserIds |-> None],
                      [u \in UserIds |->
                          Some([results |-> ParseSearch(IF u = "alice"
                                                        THEN <<Box2, Box1>>
                                                        ELSE <<BoxNoTitle, Box1>>),
                                query |-> <<"a">>])]}
    /\ probe = NoProbe

\* The user whose update an invocation handles, when two users write at
\* the same time
UserOf(t) == IF t = "t1" THEN "alice" ELSE "bob"

\* Updates of two different users arrive close together: their handlers
\* interleave at the awaits (the dispatcher runs handlers as concurrent
\* tasks); each user has one interaction.
NextInterleaved == \E t \in Tasks :
                      \/ CmdStart(t, UserOf(t))
                      \/ CbStart(t, UserOf(t))
                      \/ Step(t)

SpecInterleaved == InitAtRest /\ [][NextInterleaved]_vars

-----------------------------------------------------------------------------
(* The extraction functions on their own: every page of a bounded family is
   parsed; every button of the resulting keyboard is pressed and resolved. *)

\* Generated search pages: up to MaxBoxes containers with distinct ids, each
\* with or without its title link
GeneratedPages ==
    UNION {{[i \in 1..n |-> MkBox(i, f[i])] : f \in [1..n -> BOOLEAN]} : n \in 0..MaxBoxes}

\* Pages of one titled container whose id text is anything the id attribute
\* may hold after its "mdl-" start, the two tags included
OddIdPages ==
    {<<[boxid |-> <<"mdl-">> \o rest, h6 |-> TRUE, a |-> TRUE, text |-> "Title",
        href |-> <<"/x">>, muted |-> ""]>> :
       rest \in SeqsUpTo({"7", "mdl-", "mdl_"}, 2)}

SynopsisLengths == {0, 1} \cup ((SynopsisLimit - 1)..(SynopsisLimit + MaxOver))

\* Detail pages: every combination of the optional elements
GeneratedDocs ==
    [h1 : BOOLEAN,
     img : {None, Some(<<>>), Some(PosterSrc), Some(<<"//", "img/poster.jpg">>),
            Some(<<"/", "img/poster.jpg">>)},
     rating : {"absent", "ok", "nobox"},
     info : SUBSET {"Country", "Pays", "Type"},
     synopsis : {None} \cup {Some(TextOf(n)) : n \in SynopsisLengths},
     genres : {None, Some(<<>>), Some(<<"Thriller">>), Some(<<"Thriller", "Drama">>)}]

DetailUrl == <<BASE_URL, "/1-squid-game">>

InitExtract ==
    /\ task = [t \in Tasks |-> NewTask]
    /\ playwright = NoHandle
    /\ browser = NoHandle
    /\ liveDrivers = {}
    /\ liveBrowsers = {}
    /\ user_data = [u \in UserIds |-> None]
    /\ \/ \E page \in GeneratedPages \cup OddIdPages :
             probe = [NoProbe EXCEPT !.kind = "search", !.stage = "fetched", !.page = page]
       \/ \E doc \in GeneratedDocs :
             probe = [NoProbe EXCEPT !.kind = "detail", !.stage = "fetched", !.doc = Some(doc)]

ProbeOnly(p) ==
    /\ probe' = p
    /\ UNCHANGED <<task, scraperVars, user_data>>

\* search_dramas, lines 77-107, on the fetched page
ExtractSearch ==
    /\ probe.kind = "search"
    /\ probe.stage = "fetched"
    /\ ProbeOnly([probe EXCEPT !.stage = "parsed", !.results = ParseSearch(probe.page)])

\* drama_command, lines 300-310: one button per result; the user presses one
PressButton ==
    /\ probe.kind = "search"
    /\ probe.stage = "parsed"
    /\ \E i \in 1..Len(probe.results) :
          ProbeOnly([probe EXCEPT !.stage = "pressed", !.sel = i,
                                  !.data = Selector(probe.results[i].id)])

\* drama_callback, lines 337-349: the selector is decoded and looked up
ResolveButton ==
    /\ probe.stage = "pressed"
    /\ ProbeOnly([probe EXCEPT !.stage = "resolved",
                               !.hit = Lookup(probe.results, DecodeSelector(probe.data))])

\* get_drama_details, lines 121-181, on the fetched page
ExtractDetail ==
    /\ probe.kind = "detail"
    /\ probe.stage = "fetched"
    /\ ProbeOnly([probe EXCEPT !.stage = "parsed",
                               !.details = ParseDetail(Val(probe.doc), DetailUrl)])

NextExtract == ExtractSearch \/ PressButton \/ ResolveButton \/ ExtractDetail

SpecExtract == InitExtract /\ [][NextExtract]_vars

-----------------------------------------------------------------------------
(* Properties *)

Count(seq, e) == Cardinality({i \in 1..Len(seq) : seq[i] = e})

Has(seq, e) == \E i \in 1..Len(seq) : seq[i] = e

\* Every b of the log has an a before it.
Preceded(seq, a, b) ==
    \A j \in 1..Len(seq) : seq[j] = b => \E i \in 1..(j - 1) : seq[i] = a

\* No b of the log comes after an a.
NoneAfter(seq, a, b) ==
    \A i \in 1..Len(seq), j \in 1..Len(seq) : ~(i < j /\ seq[i] = a /\ seq[j] = b)

\* The awaits of _get_page_content that use the browsing context
FetchPcs == {"newpage", "goto", "waitidle", "getcontent", "pageclose", "ctxclose"}

\* The text after "/drama" is empty or whitespace only.
Blank(text) == text # <<>> /\ Strip(Tail(text)) = <<>>

\* The selected id is the id of an entry of the user's stored result set.
Known(t) ==
    /\ user_data[task[t].uid] # None
    /\ Remove(task[t].data, "mdl_") \in Ids(Val(user_data[task[t].uid]).results)

\* The url fetched by the selection is the url of an entry of the user's
\* stored set that has the selected id.
FetchesOwnEntry(t) ==
    /\ user_data[task[t].uid] # None
    /\ task[t].url # None
    /\ LET results == Val(user_data[task[t].uid]).results IN
       \E i \in 1..Len(results) :
          /\ results[i].id = Remove(task[t].data, "mdl_")
          /\ results[i].url = Val(task[t].url)

\* C1 (as claimed): an ended search or selection interaction that reached a
\* scraper call has invoked scraper.close() exactly once, whatever failed.
C1_CloseExactlyOnce ==
    \A t \in Tasks :
       (task[t].pc = "done" /\ Has(task[t].ev, "fetch")) => Count(task[t].ev, "close") = 1

\* C2 (as claimed): when _get_page_content has returned or raised, the page
\* and the browsing context it opened are closed.
C2_PageAndContextReleased ==
    \A t \in Tasks :
       task[t].pc = "after_fetch" => ~task[t].ctxOpen /\ ~task[t].pageOpen

\* C3: when close() returns, to the place that called it and not by an
\* exception, the browser handle and the driver handle are both unset, also
\* when closing the browser or stopping the driver failed.
C3_CloseEndsInNoBrowserState ==
    \A t \in Tasks :
       task[t].pc = "after_close" =>
          /\ browser = NoHandle
          /\ playwright = NoHandle
          /\ ~task[t].escaped
          /\ task[t].site # "none"

\* close() has returned after its except block ran: a driver is still
\* running although the handles are unset.
C3_Witness ==
    \E t \in Tasks : task[t].pc = "after_close" /\ liveDrivers # {}

\* C4 (as claimed): at most one launched browser is live, and a live browser
\* is the one the scraper's handle refers to.
C4_AtMostOneLiveBrowser ==
    /\ Cardinality(LiveBrowserIds) <= 1
    /\ LiveBrowserIds \subseteq {browser}

\* C5 (as claimed): the browser a fetch is using is not torn down under it.
C5_NoCrossTeardown ==
    \A t \in Tasks : task[t].pc \in FetchPcs => task[t].ub \in LiveBrowserIds

\* C6 (as claimed): in every interaction the order is fetch, parse, render,
\* close; no close comes before the render.
C6_RenderBeforeClose ==
    \A t \in Tasks :
       /\ Preceded(task[t].ev, "fetch", "parse")
       /\ Preceded(task[t].ev, "parse", "render")
       /\ NoneAfter(task[t].ev, "close", "render")

\* C6 (amended): in every interaction the fetch precedes the parse, the
\* parse precedes the render and the fetch precedes every close; a
\* selection renders before it closes, a search closes before it renders.
C6_OrderPerHandler ==
    \A t \in Tasks :
       /\ Preceded(task[t].ev, "fetch", "parse")
       /\ Preceded(task[t].ev, "parse", "render")
       /\ Preceded(task[t].ev, "fetch", "close")
       /\ task[t].kind = "cb" => NoneAfter(task[t].ev, "close", "render")
       /\ task[t].kind = "cmd" => Preceded(task[t].ev, "close", "render")

\* A search that found results: closed, then rendered.
C6_Witness ==
    \E t \in Tasks :
       /\ task[t].pc = "done"
       /\ task[t].kind = "cmd"
       /\ task[t].ev = <<"fetch", "parse", "close", "render">>

\* C7: a selection whose id is not in the selecting user's stored results
\* (or who has none) performs no fetch and leaves the scraper and the stored
\* sessions untouched; once acknowledged (lines 336-353) it sends one of the
\* two error messages and ends; and a selection that fetches, fetches the
\* url of the entry with that id in the user's own stored set.
C7_UnknownSelectionRejected ==
    [][\A t \in Tasks :
          (task'[t] # task[t] /\ task'[t].kind = "cb" /\ task'[t].pc # "b_answer") =>
             /\ ~Known(t)' =>
                   /\ UNCHANGED <<user_data, scraperVars>>
                   /\ task'[t].ev = <<>>
                   /\ task'[t].pc \in {"b_edit_searchagain", "b_edit_nodrama", "done"}
                   /\ task'[t].tried \subseteq {"search_again", "no_drama"}
                   /\ (task'[t].pc = "done" /\ task[t].pc # "b_answer")
                         => task'[t].tried # {}
             /\ Has(task'[t].ev, "fetch") => FetchesOwnEntry(t)']_vars

\* A user with a stored result set selected an id that is not in it, and
\* was answered.
C7_Witness ==
    \E t \in Tasks :
       /\ task[t].pc = "done"
       /\ task[t].kind = "cb"
       /\ user_data[task[t].uid] # None
       /\ ~Known(t)
       /\ task[t].shown = {"no_drama"}

\* C8: a search request whose query text is empty or whitespace only is
\* answered with the usage message alone: no fetch, the scraper and the
\* stored sessions untouched.
C8_BlankQueryUsageOnly ==
    [][\A t \in Tasks :
          (task'[t] # task[t] /\ task'[t].kind = "cmd" /\ Blank(task'[t].text)) =>
             /\ UNCHANGED <<user_data, scraperVars>>
             /\ task'[t].ev = <<>>
             /\ task'[t].pc \in {"c_usage", "done"}
             /\ task'[t].pc = "done" => task'[t].tried = {"usage"}]_vars

\* "/drama" followed by whitespace only was answered with the usage message.
C8_Witness ==
    \E t \in Tasks :
       /\ task[t].pc = "done"
       /\ task[t].kind = "cmd"
       /\ Len(task[t].text) > 1
       /\ Blank(task[t].text)
       /\ task[t].shown = {"usage"}

\* C9 (as claimed): a search whose fetch returned no HTML never parses,
\* sends the "not found" message and closes the browser session exactly once.
C9_NoHtmlClosedOnce ==
    \A t \in Tasks :
       (/\ task[t].pc = "done"
        /\ task[t].kind = "cmd"
        /\ Has(task[t].ev, "fetch")
        /\ task[t].content = None) =>
          /\ ~Has(task[t].ev, "parse")
          /\ "not_found" \in task[t].tried
          /\ Count(task[t].ev, "close") = 1

\* C10 (as claimed): no exception leaves drama_command or drama_callback,
\* and when the handler is over the browser session is closed.
C10_NoExceptionEscapes ==
    \A t \in Tasks :
       task[t].pc = "done" => ~task[t].escaped /\ browser = NoHandle

\* C11 (as claimed): when the record has an image and sending the photo is
\* rejected, the interaction ends with the detail text delivered as a
\* text-only message, and the generic failure message is not sent.
C11_PhotoRejectedFallsBackToText ==
    \A t \in Tasks :
       (/\ task[t].pc = "done"
        /\ task[t].kind = "cb"
        /\ "photo" \in task[t].tried \ task[t].shown) =>
          /\ "text" \in task[t].shown
          /\ "generic" \notin task[t].tried

\* What the search of handler t found: the parsed page, nothing without HTML
Found(r) == IF r.content = None THEN <<>> ELSE ParseSearch(Val(r.content))

\* C12 (as claimed): after a search with a non-empty query has ended (with
\* results, without, or with a failure) the user's stored result set holds
\* no entry of an earlier search: it is absent or it is what this search found.
C12_SearchOverwritesPriorSet ==
    \A t \in Tasks :
       (task[t].pc = "done" /\ task[t].kind = "cmd" /\ task[t].query # <<>>) =>
          \/ user_data[task[t].uid] = None
          \/ Val(user_data[task[t].uid]).results = Found(task[t])

\* C12 (amended): a search that found at least one result ends with exactly
\* its results and its query stored for the user, also when showing them
\* failed; a search that found none, or whose fetch failed, changes no
\* stored session, so the earlier set stays selectable.
C12_FoundResultsReplace ==
    [][\A t \in Tasks :
          (task'[t] # task[t] /\ task'[t].kind = "cmd") =>
             /\ Found(task'[t]) = <<>> => UNCHANGED user_data
             /\ (Found(task'[t]) # <<>> /\ task'[t].pc = "done") =>
                   user_data'[task'[t].uid] = Some([results |-> Found(task'[t]),
                                                    query |-> task'[t].query])]_vars

\* A search without results has ended and the user's earlier result set is
\* still stored.
C12_Witness ==
    \E t \in Tasks :
       /\ task[t].pc = "done"
       /\ task[t].kind = "cmd"
       /\ Has(task[t].ev, "fetch")
       /\ Found(task[t]) = <<>>
       /\ "not_found" \in task[t].shown
       /\ user_data[task[t].uid] # None

\* C13 (as claimed): every id that search parsing emits survives the round
\* trip through the button selector: decoding "mdl_" + id gives the id
\* back, and the lookup in the result list finds that entry's url.
C13_IdRoundTrip ==
    probe.stage = "resolved" =>
       /\ DecodeSelector(probe.data) = probe.results[probe.sel].id
       /\ probe.hit = Some(probe.results[probe.sel].url)

\* The containers of a page that have a title element with an anchor
ValidBoxes(page) == SelectSeq(page, LAMBDA box : box.h6 /\ box.a)

\* C14 (as claimed): search parsing returns the valid containers in document
\* order, capped at ten: with V valid containers the output has min(V, 10)
\* entries, wherever the invalid ones stand.
C14_ValidInOrderCapped ==
    (probe.kind = "search" /\ probe.stage # "fetched") =>
       LET valid == ValidBoxes(probe.page)
           n == Min(Len(valid), ResultLimit)
       IN /\ Len(probe.results) = n
          /\ \A i \in 1..n : probe.results[i].id = Remove(valid[i].boxid, "mdl-")

\* C15 (as claimed): detail parsing of a fetched page returns a record
\* whichever optional elements are absent, each missing field at its
\* default: "Unknown" title, empty image, "N/A" rating, info fields and
\* genres, empty synopsis.
C15_RecordForEveryPage ==
    (probe.kind = "detail" /\ probe.stage = "parsed") =>
       /\ probe.details # None
       /\ LET doc == Val(probe.doc)
              d == Val(probe.details)
          IN /\ ~doc.h1 => d.title = <<"Unknown">>
             /\ doc.img = None => d.image_url = <<>>
             /\ doc.rating # "ok" => d.rating = NA
             /\ doc.info \cap {"Country", "Pays"} = {} => d.country = NA
             /\ doc.info \cap {"Type"} = {} => d.type = NA
             /\ doc.synopsis = None => d.synopsis = <<>>
             /\ doc.genres = None => d.genres = NA

\* The text of the synopsis container of the page, empty when it is absent
SynopsisText(doc) == IF doc.synopsis = None THEN <<>> ELSE Val(doc.synopsis)

EndsWithEllipsis(s) ==
    Len(s) >= Len(Ellipsis) /\ SubSeq(s, Len(s) - Len(Ellipsis) + 1, Len(s)) = Ellipsis

\* C16: the synopsis of the record is the page's synopsis S unchanged when
\* len(S) <= 500, and the first 500 characters of S followed by "..." when
\* len(S) > 500; the record's synopsis ends with the marker iff len(S) > 500.
C16_SynopsisTruncation ==
    (probe.kind = "detail" /\ probe.stage = "parsed" /\ probe.details # None) =>
       LET S == SynopsisText(Val(probe.doc))
           out == Val(probe.details).synopsis
       IN /\ Len(S) <= SynopsisLimit => out = S
          /\ Len(S) > SynopsisLimit =>
                /\ Len(out) = SynopsisLimit + Len(Ellipsis)
                /\ \A i \in 1..SynopsisLimit : out[i] = S[i]
          /\ EndsWithEllipsis(out) <=> Len(S) > SynopsisLimit

\* A synopsis longer than the limit was cut and marked.
C16_Witness ==
    /\ probe.kind = "detail"
    /\ probe.stage = "parsed"
    /\ probe.details # None
    /\ Len(SynopsisText(Val(probe.doc))) > SynopsisLimit
    /\ EndsWithEllipsis(Val(probe.details).synopsis)

\* C17: close() called in the no-browser state closes nothing, stops
\* nothing, leaves the scraper unchanged and returns without raising; and a
\* second close() of an interaction, following its first, changes nothing.
C17_CloseIdempotent ==
    [][\A t \in Tasks :
          (task[t].pc = "close_begin" /\ task'[t] # task[t]) =>
             /\ (browser = NoHandle /\ playwright = NoHandle) =>
                   /\ UNCHANGED scraperVars
                   /\ task'[t].pc = "after_close"
                   /\ ~task'[t].escaped
             /\ Has(task[t].ev, "close") =>
                   /\ UNCHANGED scraperVars
                   /\ task'[t].pc = "after_close"]_vars

\* The second close() of an interaction has returned.
C17_Witness ==
    \E t \in Tasks :
       /\ task[t].pc = "after_close"
       /\ Count(task[t].ev, "close") = 2
       /\ browser = NoHandle
       /\ playwright = NoHandle

\* The stored session s is what the search of handler r produced: the titled
\* containers of its page in document order, from the first on, under the
\* query of its message.
StoredFrom(s, r) ==
    /\ r.kind = "cmd"
    /\ r.content # None
    /\ s.query = r.query
    /\ LET valid == ValidBoxes(Val(r.content)) IN
       /\ Len(s.results) <= Len(valid)
       /\ \A i \in 1..Len(s.results) :
             /\ s.results[i].id = Remove(valid[i].boxid, "mdl-")
             /\ s.results[i].url = <<BASE_URL>> \o valid[i].href

\* C18: every stored result set holds at most 10 entries, and whenever a
\* user's stored session changes, the new one is the output of one search of
\* that user, in parsing order, stored together with that search's query.
C18_StoredSetBounded ==
    [][\A u \in UserIds :
          /\ user_data'[u] # None =>
                /\ Len(Val(user_data'[u]).results) <= ResultLimit
                /\ Len(Val(user_data'[u]).results) > 0
          /\ user_data'[u] # user_data[u] =>
                /\ user_data'[u] # None
                /\ \E t \in Tasks :
                      /\ task[t].uid = u
                      /\ StoredFrom(Val(user_data'[u]), task[t])]_vars

\* A search of a page with more than ten titled containers was stored: ten
\* entries.
C18_Witness ==
    \E t \in Tasks :
       /\ task[t].pc = "c_edit_results"
       /\ Len(ValidBoxes(Val(task[t].content))) > ResultLimit
       /\ Len(Val(user_data[task[t].uid]).results) = ResultLimit

\* C19 (as claimed): whenever close() returns, no started driver is left
\* running, also when the launch had failed after the driver started and
\* when closing the browser raised inside close(); the one driver that may
\* remain is a driver whose own stop() was called and failed.
C19_DriverStoppedByClose ==
    [][\A t \in Tasks :
          (task[t].pc \in {"close_begin", "bclose", "pstop"}
              /\ task'[t].pc = "after_close") =>
             liveDrivers' \subseteq (IF task[t].pc = "pstop" THEN {task[t].cp} ELSE {})]_vars

\* C20: a stored session changes only by a step of a search of its own
\* user, so an interaction of u leaves the session of every other user
\* unchanged; and a selection by u is accepted iff its id is in u's own
\* stored set, and then fetches the url of u's entry, whatever the other
\* user's handler does in between.
C20_SessionsIsolated ==
    [][/\ \A v \in UserIds :
             user_data'[v] # user_data[v] =>
                \E t \in Tasks : /\ task[t].uid = v
                                  /\ task[t].kind = "cmd"
                                  /\ task'[t].pc = "c_edit_results"
                                  /\ task[t].pc # "c_edit_results"
       /\ \A t \in Tasks :
             (task[t].pc = "b_answer" /\ task'[t] # task[t]) =>
                /\ task'[t].pc = "b_edit_loading" => Known(t) /\ FetchesOwnEntry(t)'
                /\ task'[t].pc \in {"b_edit_searchagain", "b_edit_nodrama"} => ~Known(t)
       /\ \A t \in Tasks :
             Has(task'[t].ev, "fetch") /\ task'[t].kind = "cb" => FetchesOwnEntry(t)']_vars

\* While one user's search stores its results, the other user's selection
\* of an id that only the first user's set holds is being rejected.
C20_Witness ==
    \E t \in Tasks, s \in Tasks :
       /\ task[t].uid # task[s].uid
       /\ task[t].pc = "c_edit_results"
       /\ task[s].pc = "b_edit_nodrama"
       /\ DecodeSelector(task[s].data) \in Ids(Val(user_data[task[t].uid]).results)

====
